---- MODULE Spec2Model ----
(***************************************************************************)
(* A model of signal-desktop-mcp's encrypted data-access layer             *)
(* (signal-db.js: key resolution, the SignalDatabase session, the query    *)
(* engine) and of the tool-call handler of index.ts that drives it.        *)
(*                                                                         *)
(* Strings the code inspects character by character (keys, paths, message  *)
(* bodies, search queries) are sequences of one-character strings; strings *)
(* the code only compares for equality are TLA+ strings.  Null stands for  *)
(* JavaScript's undefined/null and SQL's NULL.                             *)
(***************************************************************************)
EXTENDS Integers, Sequences, FiniteSets, TLC

VARIABLES
    env,        \* caller arguments, process.env and the files of the data directory
    this,       \* the SignalDatabase object: key, db, sourceDir, selfServiceId
    handles,    \* every native Database handle created so far
    convs,      \* the conversations table, in storage order
    msgs,       \* the messages table, in storage order
    last        \* the last call made: its name, arguments, native steps and outcome

vars == <<env, this, handles, convs, msgs, last>>

\* JavaScript's undefined/null and SQL's NULL, one marker per kind of value
Null == "null"                  \* for strings only compared for equality
Undefined == <<"undefined">>    \* for character strings and lists
NullNum == -1                   \* for numbers (timestamps, limit, offset)
NoHandle == 0                   \* this.db = null

(***************************************************************************)
(* Bounds of the model.                                                    *)
(***************************************************************************)
MaxHandles == 2
MaxMsgs == 2
MaxConvs == 2

(***************************************************************************)
(* Strings as sequences of characters.                                     *)
(***************************************************************************)
Placeholder(c) == <<"$", "{", c, "}">>

\* JavaScript truthiness of a string-or-undefined value
Truthy(v) == v # Undefined /\ v # <<>>

\* String.prototype.startsWith
startsWith(s, p) == Len(s) >= Len(p) /\ SubSeq(s, 1, Len(p)) = p

\* String.prototype.includes, for a one-character needle
includes(s, c) == \E i \in 1..Len(s) : s[i] = c

(***************************************************************************)
(* isValidPath: not empty, not an unsubstituted template variable.         *)
(***************************************************************************)
isValidPath_noTemplateCheck(value) == Truthy(value)

isValidPath(value) ==
    IF ~Truthy(value) THEN FALSE
    ELSE IF startsWith(value, <<"$", "{">>) /\ includes(value, "}") THEN FALSE
    ELSE TRUE

(***************************************************************************)
(* getDefaultSignalDir: the OS default directory; UnsupportedOS stands for *)
(* the throw of the default arm.                                           *)
(***************************************************************************)
UnsupportedOS == <<"Unsupported OS">>

getDefaultSignalDir(os, flatpakExists) ==
    CASE os = "win32" -> <<"home/AppData/Roaming/Signal">>
      [] os = "darwin" -> <<"home/Library/Application Support/Signal">>
      [] os = "linux" ->
            IF flatpakExists THEN <<"home/.var/app/org.signal.Signal/config/Signal">>
            ELSE <<"home/.config/Signal">>
      [] OTHER -> UnsupportedOS

(***************************************************************************)
(* The SignalDatabase constructor: the new object, and whether it threw.   *)
(***************************************************************************)
constructor_envFirst(sourceDir, key, e, flatpakExists) ==
    LET envSourceDir == e.SIGNAL_SOURCE_DIR
        resolvedSourceDir ==
            IF isValidPath(envSourceDir) THEN envSourceDir
            ELSE IF isValidPath(sourceDir) THEN sourceDir
            ELSE Undefined
        dir == IF Truthy(resolvedSourceDir) THEN resolvedSourceDir
               ELSE getDefaultSignalDir(e.platform, flatpakExists)
    IN  [threw |-> dir = UnsupportedOS,
         this |-> [key |-> key, db |-> NoHandle, sourceDir |-> dir,
                   selfServiceId |-> Null]]

constructor(sourceDir, key, e, flatpakExists) ==
    LET envSourceDir == e.SIGNAL_SOURCE_DIR
        resolvedSourceDir ==
            IF isValidPath(sourceDir) THEN sourceDir
            ELSE IF isValidPath(envSourceDir) THEN envSourceDir
            ELSE Undefined
        dir == IF Truthy(resolvedSourceDir) THEN resolvedSourceDir
               ELSE getDefaultSignalDir(e.platform, flatpakExists)
    IN  [threw |-> dir = UnsupportedOS,
         this |-> [key |-> key, db |-> NoHandle, sourceDir |-> dir,
                   selfServiceId |-> Null]]

(***************************************************************************)
(* getEncryptionKey.  config is the outcome of reading config.json: state  *)
(* "missing", "unreadable" (read or parse error, or not an object) or      *)
(* "ok" with the parsed key and encryptedKey fields.  keychain is the      *)
(* outcome of the keychain lookup and decryptKey: KeychainFail for any     *)
(* throw, else the decrypted text.                                         *)
(***************************************************************************)
KeychainFail == <<"keychain failure">>

getEncryptionKey_configFirst(config, providedKey, os, keychain) ==
    IF config.state = "ok" /\ Truthy(config.key) THEN config.key
    ELSE IF Truthy(providedKey) THEN providedKey
    ELSE Undefined

getEncryptionKey_failureAsKey(config, providedKey, os, keychain) ==
    IF Truthy(providedKey) THEN providedKey
    ELSE IF config.state # "ok" THEN Undefined
    ELSE IF Truthy(config.key) THEN config.key
    ELSE IF Truthy(config.encryptedKey) /\ os = "darwin" THEN keychain
    ELSE Undefined

getEncryptionKey(config, providedKey, os, keychain) ==
    IF Truthy(providedKey) THEN providedKey
    ELSE IF config.state # "ok" THEN Undefined
    ELSE IF Truthy(config.key) THEN config.key
    ELSE IF Truthy(config.encryptedKey) /\ os = "darwin"
         THEN (IF keychain = KeychainFail THEN Undefined ELSE keychain)
    ELSE Undefined

\* the key open() hands to getEncryptionKey
providedKeyOf(key, e) ==
    IF isValidPath(key) THEN key
    ELSE IF isValidPath(e.SIGNAL_KEY) THEN e.SIGNAL_KEY
    ELSE Undefined

(***************************************************************************)
(* Native handles.  A handle records the key and the number of cipher      *)
(* directives applied to it, whether the verification query passed on it,  *)
(* and whether it is still open.                                           *)
(***************************************************************************)
NumPragmas == 5

NewHandle == [open |-> TRUE, key |-> Undefined, pragmas |-> 0, verified |-> FALSE]

(***************************************************************************)
(* loadSelfContact.  row is the outcome of reading the items row: state    *)
(* "absent", "throws" (the query or JSON.parse raised, or the JSON is      *)
(* null) or "ok" with the parsed object's value field.                     *)
(***************************************************************************)
loadSelfContact(s, row) ==
    IF s.db = NoHandle THEN s
    ELSE IF row.state # "ok" THEN s
    ELSE [s EXCEPT !.selfServiceId = IF row.value \in {Null, ""} THEN Null ELSE row.value]

(***************************************************************************)
(* open().  att holds what the outside world answers during this attempt:  *)
(*   exists   - existsSync(dbPath)                                         *)
(*   keychain - outcome of the keychain path                               *)
(*   failAt   - which native call raises: 0 none, 1 new Database,          *)
(*              2..NumPragmas+1 a cipher directive, NumPragmas+2 SELECT 1  *)
(*   selfRow  - outcome of reading the self-identifier row                 *)
(* The result holds the object and the handles afterwards, the native      *)
(* steps taken, the error raised (Null if none) and the handle returned.   *)
(***************************************************************************)
Ret(s, hs, steps, raised, ret) ==
    [this |-> s, handles |-> hs, steps |-> steps, raised |-> raised, ret |-> ret]

OpenSteps == <<"existsSync", "getEncryptionKey", "new", "pragma", "verify", "loadSelfContact">>

openFresh(s, hs, e, att) ==
    IF ~att.exists THEN Ret(s, hs, SubSeq(OpenSteps, 1, 1), "not_found", NoHandle)
    ELSE
    LET encKey == getEncryptionKey(e.config, providedKeyOf(s.key, e), e.platform, att.keychain)
    IN
    IF ~Truthy(encKey) THEN Ret(s, hs, SubSeq(OpenSteps, 1, 2), "key_not_found", NoHandle)
    ELSE IF att.failAt = 1 THEN Ret(s, hs, SubSeq(OpenSteps, 1, 3), "open_failed", NoHandle)
    ELSE
    LET h == Len(hs) + 1
        s1 == [s EXCEPT !.db = h]
        applied == IF att.failAt = 0 \/ att.failAt > NumPragmas + 1
                   THEN NumPragmas ELSE att.failAt - 2
        keyed == IF applied >= 1 THEN encKey ELSE Undefined
        hs1 == Append(hs, [NewHandle EXCEPT !.key = keyed, !.pragmas = applied])
    IN
    IF applied < NumPragmas
    THEN Ret(s1, hs1, SubSeq(OpenSteps, 1, 4), "open_failed", NoHandle)
    ELSE IF att.failAt = NumPragmas + 2
    THEN Ret(s1, hs1, SubSeq(OpenSteps, 1, 5), "open_failed", NoHandle)
    ELSE Ret(loadSelfContact(s1, att.selfRow),
             [hs1 EXCEPT ![h].verified = TRUE], OpenSteps, Null, h)

open_noEarlyReturn(s, hs, e, att) == openFresh(s, hs, e, att)

open(s, hs, e, att) ==
    IF s.db # NoHandle THEN Ret(s, hs, <<>>, Null, s.db)
    ELSE openFresh(s, hs, e, att)

(***************************************************************************)
(* close().                                                                *)
(***************************************************************************)
close_keepSlot(s, hs) ==
    IF s.db # NoHandle
    THEN Ret(s, [hs EXCEPT ![s.db].open = FALSE], <<"db.close">>, Null, NoHandle)
    ELSE Ret(s, hs, <<>>, Null, NoHandle)

close_forgetHandle(s, hs) ==
    IF s.db # NoHandle
    THEN Ret([s EXCEPT !.db = NoHandle], hs, <<"db.close">>, Null, NoHandle)
    ELSE Ret(s, hs, <<>>, Null, NoHandle)

close(s, hs) ==
    IF s.db # NoHandle
    THEN Ret([s EXCEPT !.db = NoHandle], [hs EXCEPT ![s.db].open = FALSE],
             <<"db.close">>, Null, NoHandle)
    ELSE Ret(s, hs, <<>>, Null, NoHandle)

(***************************************************************************)
(* The storage engine's part of the queries.                               *)
(***************************************************************************)
\* ASCII case folding, as SQLite's LIKE does it
Fold(c) == CASE c = "A" -> "a" [] c = "B" -> "b" [] OTHER -> c

\* SQLite's  s LIKE p  for non-NULL s: % is any run of characters, _ is any
\* one character, every other character matches itself up to ASCII case
RECURSIVE Like(_, _)
Like(s, p) ==
    IF p = <<>> THEN s = <<>>
    ELSE IF Head(p) = "%"
         THEN \E k \in 0..Len(s) : Like(SubSeq(s, k + 1, Len(s)), Tail(p))
    ELSE IF s = <<>> THEN FALSE
    ELSE IF Head(p) = "_" THEN Like(Tail(s), Tail(p))
    ELSE Fold(Head(s)) = Fold(Head(p)) /\ Like(Tail(s), Tail(p))

\* the WHERE clause  body LIKE ?  : NULL LIKE p is NULL, which selects nothing
bodyLike_nullMatches(body, pattern) == body = Undefined \/ Like(body, pattern)

bodyLike(body, pattern) == body # Undefined /\ Like(body, pattern)

\* ORDER BY timestamp DESC over the rows S of table tbl: every order the
\* engine may produce (rows of equal timestamp come in any order; NULL sorts
\* below every number)
RECURSIVE OrderByTimestampDesc(_, _)
OrderByTimestampDesc(tbl, S) ==
    IF S = {} THEN {<<>>}
    ELSE LET tops == {i \in S : \A j \in S : tbl[j].timestamp <= tbl[i].timestamp}
         IN  UNION {{<<i>> \o o : o \in OrderByTimestampDesc(tbl, S \ {i})} : i \in tops}

\* LIMIT l OFFSET o : a negative limit is no limit, a negative offset is 0
LimitOffset(seq, l, o) ==
    LET skip == IF o < 0 THEN 0 ELSE o
        rest == SubSeq(seq, skip + 1, Len(seq))
    IN  IF l < 0 \/ l >= Len(rest) THEN rest ELSE SubSeq(rest, 1, l)

\* SELECT ... FROM conversations WHERE name = ? OR profileName = ? LIMIT 1,
\* as the index of the row (0 if none); rows are scanned in storage order
findConversation_jsonFallback(cv, chatName) ==
    LET hits == {i \in 1..Len(cv) :
                    \/ cv[i].name = chatName \/ cv[i].profileName = chatName
                    \/ /\ cv[i].json.state = "ok" /\ cv[i].json.kind = "object"
                       /\ cv[i].json.name = chatName}
    IN  IF hits = {} THEN 0 ELSE CHOOSE i \in hits : \A j \in hits : i <= j

findConversation(cv, chatName) ==
    LET hits == {i \in 1..Len(cv) : cv[i].name = chatName \/ cv[i].profileName = chatName}
    IN  IF hits = {} THEN 0 ELSE CHOOSE i \in hits : \A j \in hits : i <= j

(***************************************************************************)
(* Display name of a conversation row (listChats, getChatMessages and      *)
(* searchChat share the code).  A json column is the outcome of parsing    *)
(* it: state "absent", "bad" (JSON.parse throws) or "ok" with the kind of  *)
(* value parsed ("null", "scalar", "object") and the fields read.          *)
(***************************************************************************)
StrTruthy(v) == v # Null /\ v # ""

Or(a, b) == IF StrTruthy(a) THEN a ELSE b

displayName_groupFirst(conv) ==
    LET direct == Or(conv.name, conv.profileName)
    IN  IF StrTruthy(direct) \/ conv.json.state = "absent" THEN direct
        ELSE IF conv.json.state = "bad" \/ conv.json.kind = "null" THEN direct
        ELSE IF conv.json.kind = "scalar" THEN Null
        ELSE Or(conv.json.groupName, Or(conv.json.name, conv.json.profileName))

displayName(conv) ==
    LET direct == Or(conv.name, conv.profileName)
    IN  IF StrTruthy(direct) \/ conv.json.state = "absent" THEN direct
        ELSE IF conv.json.state = "bad" \/ conv.json.kind = "null" THEN direct
        ELSE IF conv.json.kind = "scalar" THEN Null
        ELSE Or(conv.json.name, Or(conv.json.profileName, conv.json.groupName))

(***************************************************************************)
(* formatMessage.                                                          *)
(***************************************************************************)
Digit(n) == <<"0", "1", "2", "3", "4", "5", "6", "7", "8", "9">>[n + 1]

\* new Date(ts).toISOString() for 0 < ts < 1000 milliseconds
toISOString(ts) ==
    <<"1970-01-01T00:00:00.", Digit(ts \div 100), Digit((ts \div 10) % 10), Digit(ts % 10), "Z">>

NumTruthy(n) == n # NullNum /\ n # 0

\* msg.sourceServiceId === this.selfServiceId || msg.type === "outgoing"
isFromSelf_idOnly(s, msg) == msg.sourceServiceId = s.selfServiceId

isFromSelf(s, msg) == msg.sourceServiceId = s.selfServiceId \/ msg.type = "outgoing"

formatMessage(s, msg, contactName) ==
    LET ts == IF NumTruthy(msg.sentAt) THEN msg.sentAt ELSE msg.timestamp
        date == IF NumTruthy(ts) THEN toISOString(ts) ELSE <<>>
        parsed == msg.json.state = "ok"
        j == msg.json
        isObject == parsed /\ j.kind = "object"
    IN  [raised |-> parsed /\ j.kind = "null",
         date |-> date,
         sender |-> IF isFromSelf(s, msg) THEN "Me" ELSE contactName,
         body |-> IF Truthy(msg.body) THEN msg.body ELSE <<>>,
         quote |-> IF isObject /\ j.quote.present THEN Or(j.quote.text, "") ELSE "",
         sticker |-> IF isObject /\ j.sticker.present
                     THEN Or(j.sticker.emoji, Or(j.sticker.packId, "")) ELSE "",
         reactions |-> IF isObject /\ j.reactions # Undefined THEN j.reactions ELSE <<>>,
         attachments |-> IF msg.hasAttachments THEN "yes" ELSE ""]

(***************************************************************************)
(* The query operations.  order is the order in which the engine yields    *)
(* the rows of the messages table under ORDER BY timestamp DESC.  The      *)
(* result adds to open()'s the records returned and, for the properties,   *)
(* the indices of the rows they were formatted from.                       *)
(***************************************************************************)
QRet(r, steps, raised, result, rows) ==
    [this |-> r.this, handles |-> r.handles, steps |-> r.steps \o steps,
     raised |-> raised, ret |-> r.ret, result |-> result, rows |-> rows]

\* messages.map(msg => this.formatMessage(msg, contactName || "Unknown"))
formatAll(r, tbl, rows, contactName) ==
    LET recs == [k \in 1..Len(rows) |->
                    formatMessage(r.this, tbl[rows[k]], Or(contactName, "Unknown"))]
    IN  IF \E k \in 1..Len(rows) : recs[k].raised
        THEN QRet(r, <<"conversations.get", "messages.all">>, "TypeError", <<>>, <<>>)
        ELSE QRet(r, <<"conversations.get", "messages.all">>, Null, recs, rows)

\* the LIMIT / OFFSET clause getChatMessages appends
paginate(seq, limit, offset) ==
    IF NumTruthy(limit) THEN LimitOffset(seq, limit, offset)
    ELSE IF offset > 0 THEN LimitOffset(seq, -1, offset)
    ELSE seq

getChatMessages(s, hs, e, att, cv, tbl, order, chatName, options) ==
    LET r == open(s, hs, e, att)
        limit == options.limit
        offset == IF options.offset = NullNum THEN 0 ELSE options.offset
        c == findConversation(cv, chatName)
        InConversation(i) == tbl[i].conversationId = cv[c].id
    IN  IF r.raised # Null THEN QRet(r, <<>>, r.raised, <<>>, <<>>)
        ELSE IF c = 0 THEN QRet(r, <<"conversations.get">>, Null, <<>>, <<>>)
        ELSE formatAll(r, tbl, paginate(SelectSeq(order, InConversation), limit, offset),
                       displayName(cv[c]))

searchChat(s, hs, e, att, cv, tbl, order, chatName, query, options) ==
    LET r == open(s, hs, e, att)
        limit == options.limit
        c == findConversation(cv, chatName)
        pattern == <<"%">> \o query \o <<"%">>
        Matches(i) == tbl[i].conversationId = cv[c].id /\ bodyLike(tbl[i].body, pattern)
        found == SelectSeq(order, Matches)
    IN  IF r.raised # Null THEN QRet(r, <<>>, r.raised, <<>>, <<>>)
        ELSE IF c = 0 THEN QRet(r, <<"conversations.get">>, Null, <<>>, <<>>)
        ELSE formatAll(r, tbl,
                       IF NumTruthy(limit) THEN LimitOffset(found, limit, 0) ELSE found,
                       displayName(cv[c]))

\* chatIds.includes(c.id) || chatIds.includes(c.serviceId)
inFilter_idOnly(chatIds, c) == \E k \in 1..Len(chatIds) : chatIds[k] = c.id

inFilter(chatIds, c) == \E k \in 1..Len(chatIds) : chatIds[k] \in {c.id, c.serviceId}

\* options.chats is the list options.chats.split(",").map(trim) of a
\* non-empty string, Undefined when the option is absent or empty
listChats(s, hs, e, att, cv, tbl, options) ==
    LET r == open(s, hs, e, att)
        Listed(i) == cv[i].type \in {"private", "group"}
        count(i) == Cardinality({k \in 1..Len(tbl) : tbl[k].conversationId = cv[i].id})
        Kept(i) == Listed(i) /\ (options.includeEmpty \/ count(i) # 0)
        info(i) == [id |-> cv[i].id,
                    serviceId |-> Or(cv[i].serviceId, cv[i].id),
                    name |-> Or(displayName(cv[i]), Null),
                    number |-> cv[i].number,
                    profileName |-> cv[i].profileName,
                    type |-> cv[i].type,
                    totalMessages |-> count(i)]
        InFilter(i) == options.chats = Undefined \/ inFilter(options.chats, info(i))
        Returned(i) == Kept(i) /\ InFilter(i)
        rows == SelectSeq([i \in 1..Len(cv) |-> i], Returned)
    IN  IF r.raised # Null THEN QRet(r, <<>>, r.raised, <<>>, <<>>)
        ELSE QRet(r, <<"conversations.all", "messages.count">>, Null,
                  [k \in 1..Len(rows) |-> info(rows[k])], rows)

(***************************************************************************)
(* The CallToolRequest handler of index.ts: a session of its own per call, *)
(* one operation, close() in the finally block, every throw turned into an *)
(* isError result.  content is the value the handler serialises.           *)
(***************************************************************************)
NoSession == [key |-> Undefined, db |-> NoHandle, sourceDir |-> Undefined,
              selfServiceId |-> Null]

TRet(s, hs, steps, raised, result, rows) ==
    [this |-> s, handles |-> hs, steps |-> steps, raised |-> raised, ret |-> NoHandle,
     result |-> result, rows |-> rows, isError |-> raised # Null]

\* the switch on the tool name, on the session db of this call
dispatch(name, args, db, hs, e, att, cv, tbl, order) ==
    LET unopened == QRet(Ret(db, hs, <<>>, Null, NoHandle), <<>>, Null, <<>>, <<>>)
    IN  CASE name = "signal_list_chats" ->
                listChats(db, hs, e, att, cv, tbl,
                          [chats |-> args.chats, includeEmpty |-> args.include_empty])
          [] name = "signal_get_chat_messages" ->
                IF ~StrTruthy(args.chat_name)
                THEN [unopened EXCEPT !.raised = "chat_name is required"]
                ELSE getChatMessages(db, hs, e, att, cv, tbl, order, args.chat_name,
                                     [limit |-> args.limit, offset |-> args.offset])
          [] name = "signal_search_chat" ->
                IF ~StrTruthy(args.chat_name)
                THEN [unopened EXCEPT !.raised = "chat_name is required"]
                ELSE IF ~Truthy(args.query)
                THEN [unopened EXCEPT !.raised = "query is required"]
                ELSE searchChat(db, hs, e, att, cv, tbl, order, args.chat_name,
                                args.query, [limit |-> args.limit])
          [] OTHER -> [unopened EXCEPT !.raised = "Unknown tool"]

\* new SignalDatabase(args.source_dir || env, password, args.key || env)
newSession(args, e, flatpakExists) ==
    constructor(IF Truthy(args.source_dir) THEN args.source_dir ELSE e.SIGNAL_SOURCE_DIR,
                IF Truthy(args.key) THEN args.key ELSE e.SIGNAL_KEY,
                e, flatpakExists)

callTool_closeOnSuccessOnly(name, args, hs, e, att, flatpakExists, cv, tbl, order) ==
    LET made == newSession(args, e, flatpakExists)
        r == dispatch(name, args, made.this, hs, e, att, cv, tbl, order)
        fin == IF r.raised = Null THEN close(r.this, r.handles)
               ELSE Ret(r.this, r.handles, <<>>, Null, NoHandle)
    IN  IF made.threw THEN TRet(NoSession, hs, <<>>, "Unsupported OS", <<>>, <<>>)
        ELSE TRet(fin.this, fin.handles, r.steps \o fin.steps, r.raised, r.result, r.rows)

callTool(name, args, hs, e, att, flatpakExists, cv, tbl, order) ==
    LET made == newSession(args, e, flatpakExists)
        r == dispatch(name, args, made.this, hs, e, att, cv, tbl, order)
        fin == close(r.this, r.handles)
    IN  IF made.threw THEN TRet(NoSession, hs, <<>>, "Unsupported OS", <<>>, <<>>)
        ELSE TRet(fin.this, fin.handles, r.steps \o fin.steps, r.raised, r.result, r.rows)

(***************************************************************************)
(* What the outside world may answer during one open().                    *)
(***************************************************************************)
SelfRows ==
    {[state |-> "absent", value |-> Null], [state |-> "throws", value |-> Null]}
    \cup {[state |-> "ok", value |-> v] : v \in {Null, "", "u1", "u2"}}

Attempt(exists, keychain, failAt, selfRow) ==
    [exists |-> exists, keychain |-> keychain, failAt |-> failAt, selfRow |-> selfRow]

RowAbsent == [state |-> "absent", value |-> Null]

\* Every distinguishable attempt with the keychain outcomes Keychains: an
\* answer that open() never gets to ask for is left at a fixed value.
Attempts(Keychains) ==
    {Attempt(FALSE, KeychainFail, 0, RowAbsent)}
    \cup {Attempt(TRUE, k, f, RowAbsent) : k \in Keychains, f \in 1..(NumPragmas + 2)}
    \cup {Attempt(TRUE, k, 0, row) : k \in Keychains, row \in SelfRows}

\* the attempts on which every native call succeeds
GoodAttempts == {att \in Attempts({KeychainFail}) : att.exists /\ att.failAt = 0}

(***************************************************************************)
(* Rows of the two tables.                                                 *)
(***************************************************************************)
JsonAbsent == [state |-> "absent", kind |-> "null"]

\* JSON.parse throws on the column's text
JsonBad == [state |-> "bad", kind |-> "null"]

\* the column's text parses to null, or to a number, string or boolean
JsonNull == [state |-> "ok", kind |-> "null"]
JsonScalar == [state |-> "ok", kind |-> "scalar"]

Conv(id, name, profileName) ==
    [id |-> id, serviceId |-> Null, name |-> name, profileName |-> profileName,
     number |-> Null, type |-> "private", json |-> JsonAbsent]

Msg(conversationId, timestamp, sentAt, body) ==
    [conversationId |-> conversationId, timestamp |-> timestamp, sentAt |-> sentAt,
     body |-> body, sourceServiceId |-> Null, type |-> "incoming", json |-> JsonAbsent,
     hasAttachments |-> FALSE]

SeqsUpTo(S, n) == UNION {[1..k -> S] : k \in 0..n}

(***************************************************************************)
(* The steps of the model: one per public method, called on the session.   *)
(***************************************************************************)
Called(op, args, outcome) ==
    \E r \in {outcome} :
        /\ this' = r.this
        /\ handles' = r.handles
        /\ last' = [op |-> op, args |-> args, pre |-> this, steps |-> r.steps,
                    raised |-> r.raised, ret |-> r.ret, result |-> r.result,
                    rows |-> r.rows]
        /\ UNCHANGED <<env, convs, msgs>>

\* an open() that may create a handle needs room for one
Room == this.db # NoHandle \/ Len(handles) < MaxHandles

Constructed == this # NoSession

NoArgs == [none |-> TRUE]

Open(Atts) ==
    \E att \in Atts :
        /\ Constructed /\ Room
        /\ LET r == open(this, handles, env, att)
           IN  Called("open", NoArgs, QRet(r, <<>>, r.raised, <<>>, <<>>))

Close ==
    /\ Constructed
    /\ LET r == close(this, handles)
       IN  Called("close", NoArgs, QRet(r, <<>>, r.raised, <<>>, <<>>))

GetChatMessages(Atts, Names, Limits, Offsets) ==
    \E order \in OrderByTimestampDesc(msgs, 1..Len(msgs)), att \in Atts,
       chatName \in Names, limit \in Limits, offset \in Offsets :
        /\ Constructed /\ Room
        /\ LET options == [limit |-> limit, offset |-> offset]
           IN  Called("getChatMessages", [chatName |-> chatName, options |-> options],
                      getChatMessages(this, handles, env, att, convs, msgs, order,
                                      chatName, options))

SearchChat(Atts, Names, Queries, Limits) ==
    \E order \in OrderByTimestampDesc(msgs, 1..Len(msgs)), att \in Atts,
       chatName \in Names, query \in Queries, limit \in Limits :
        /\ Constructed /\ Room
        /\ LET options == [limit |-> limit]
           IN  Called("searchChat",
                      [chatName |-> chatName, query |-> query, options |-> options],
                      searchChat(this, handles, env, att, convs, msgs, order,
                                 chatName, query, options))

ListChats(Atts, Filters) ==
    \E att \in Atts, includeEmpty \in BOOLEAN, chats \in Filters :
        /\ Constructed /\ Room
        /\ LET options == [chats |-> chats, includeEmpty |-> includeEmpty]
           IN  Called("listChats", options,
                      listChats(this, handles, env, att, convs, msgs, options))

(***************************************************************************)
(* Spec: the life of one session driven through its public methods, on a   *)
(* small database, with every outcome of every native call.                *)
(***************************************************************************)
Config(state, key, encryptedKey) ==
    [state |-> state, key |-> key, encryptedKey |-> encryptedKey]

ConfigMissing == Config("missing", Undefined, Undefined)
ConfigUnreadable == Config("unreadable", Undefined, Undefined)

Env(sourceDir, key, envSourceDir, envKey, os, config) ==
    [sourceDir |-> sourceDir, key |-> key, SIGNAL_SOURCE_DIR |-> envSourceDir,
     SIGNAL_KEY |-> envKey, platform |-> os, config |-> config]

EnvLife ==
    {Env(Undefined, k, Undefined, Undefined, "linux", c) :
        k \in {Undefined, <<"a">>},
        c \in {ConfigMissing, Config("ok", <<"c">>, Undefined)}}

FirstCall(s, raised) ==
    [op |-> "new", args |-> NoArgs, pre |-> NoSession, steps |-> <<>>, raised |-> raised,
     ret |-> NoHandle, result |-> <<>>, rows |-> <<>>]

Init ==
    /\ env \in EnvLife
    /\ this = constructor(env.sourceDir, env.key, env, FALSE).this
    /\ handles = <<>>
    /\ convs = <<Conv("c1", "alice", Null)>>
    /\ msgs = <<Msg("c1", 1, NullNum, <<"a">>)>>
    /\ last = FirstCall(this, Null)

LifeAttempts == Attempts({KeychainFail})

Next ==
    \/ Open(LifeAttempts)
    \/ Close
    \/ GetChatMessages(LifeAttempts, {"alice", "nobody"}, {NullNum}, {NullNum})
    \/ SearchChat(LifeAttempts, {"alice"}, {<<"a">>}, {NullNum})
    \/ ListChats(LifeAttempts, {Undefined})

Spec == Init /\ [][Next]_vars

(***************************************************************************)
(* Properties of the session's life (Spec).                                *)
(***************************************************************************)
Queries == {"listChats", "getChatMessages", "searchChat"}

Ready(h) ==
    /\ h # NoHandle
    /\ handles[h].open
    /\ handles[h].pragmas = NumPragmas
    /\ handles[h].verified

\* C1: every handle open() returns has had the cipher directives applied and
\* has passed the verification query, and an open() that raises leaves the
\* session Closed (so that the next open() or query starts afresh).
C1_OpenReturnsReadyOrLeavesClosed ==
    last.op = "open" =>
        /\ last.raised = Null => Ready(last.ret)
        /\ last.raised # Null => this.db = NoHandle

\* C9: open() on a session that is already Open returns the handle held and
\* takes no native step: no file check, no key resolution, no new handle, no
\* cipher directive, no verification query, no read of the self-identifier.
C9_OpenIsIdempotent ==
    [][(last'.op = "open" /\ this.db # NoHandle) =>
            /\ last'.raised = Null
            /\ last'.ret = this.db
            /\ last'.steps = <<>>
            /\ UNCHANGED <<this, handles>>]_vars

C9_Witness ==
    /\ last.op = "open"
    /\ last.pre.db # NoHandle
    /\ last.ret = last.pre.db
    /\ Ready(last.ret)

\* C10: close() on an Open session closes the native handle and empties the
\* slot; close() on a Closed session changes nothing and does not raise; the
\* first query after a close() goes through open() again: the file check,
\* then key resolution, and when it succeeds a new verified handle.
C10_CloseThenLazyReopen ==
    [][/\ (last'.op = "close" /\ this.db # NoHandle) =>
            /\ last'.raised = Null
            /\ this'.db = NoHandle
            /\ ~handles'[this.db].open
            /\ \A h \in 1..Len(handles) : h # this.db => handles'[h] = handles[h]
       /\ (last'.op = "close" /\ this.db = NoHandle) =>
            /\ last'.raised = Null
            /\ UNCHANGED <<this, handles>>
       /\ (last'.op \in Queries /\ last.op = "close") =>
            /\ this.db = NoHandle
            /\ Head(last'.steps) = "existsSync"
            /\ last'.raised \notin {Null, "not_found"} =>
                    SubSeq(last'.steps, 1, 2) = SubSeq(OpenSteps, 1, 2)
            /\ last'.raised = Null =>
                    /\ SubSeq(last'.steps, 1, Len(OpenSteps)) = OpenSteps
                    /\ this'.db = Len(handles) + 1
                    /\ Len(handles') = Len(handles) + 1
                    /\ Ready(this.db)']_vars

C10_Witness ==
    /\ last.op \in Queries
    /\ last.raised = Null
    /\ last.pre.db = NoHandle
    /\ Len(handles) = 2
    /\ ~handles[1].open /\ handles[1].verified
    /\ this.db = 2

\* the native handles that are open
Live == {h \in 1..Len(handles) : handles[h].open}

\* C11: the session owns at most one live handle: every handle that is open
\* is the one held in the slot, and a step creates a handle only when the
\* slot is empty, one at a time, and puts it in the slot.
C11_AtMostOneLiveHandle ==
    /\ [](Live \subseteq {this.db})
    /\ [][Len(handles') # Len(handles) =>
            /\ this.db = NoHandle
            /\ Len(handles') = Len(handles) + 1
            /\ this'.db = Len(handles')
            /\ handles'[this'.db].open]_vars

\* a failed open() left its handle in the slot, after an earlier handle of
\* the session was closed
C11_Witness ==
    /\ last.op \in Queries \cup {"open"}
    /\ last.raised = "open_failed"
    /\ last.pre.db = NoHandle
    /\ Len(handles) = 2
    /\ Live = {2}
    /\ this.db = 2

(***************************************************************************)
(* SpecKey: construction and open() over every combination of the caller's *)
(* and the environment's overrides, config.json, platform and keychain.    *)
(* Each source spells its values with a letter of its own.                 *)
(***************************************************************************)
Overrides(c) ==
    {Undefined, <<>>, Placeholder(c), <<c>> \o Placeholder(c), <<"$", "{", c>>, <<c>>}

Configs ==
    {ConfigMissing, ConfigUnreadable}
    \cup {Config("ok", k, x) : k \in {Undefined, <<>>, <<"c">>}, x \in {Undefined, <<"x">>}}

Platforms == {"win32", "darwin", "linux", "freebsd"}

\* every combination of the key sources, and every combination of the
\* directory sources
EnvKey ==
    {Env(d, k, Undefined, ek, os, c) :
        d \in {Undefined, Placeholder("d")},
        k \in Overrides("a"), ek \in Overrides("e"),
        os \in Platforms, c \in Configs}
    \cup
    {Env(d, <<"a">>, ed, Undefined, os, ConfigMissing) :
        d \in Overrides("d") \ {<<"$", "{", "d">>},
        ed \in Overrides("D") \ {<<"$", "{", "D">>},
        os \in Platforms}

\* what the keychain path gives when it is taken: a failure (no keychain,
\* no password, no v10 tag, a decryption error), the empty text or a key
Keychains == {KeychainFail, <<>>, <<"s">>}

InitKey ==
    /\ env \in {e @@ [keychain |-> k] : e \in EnvKey, k \in Keychains}
    /\ this = NoSession
    /\ handles = <<>>
    /\ convs = <<Conv("c1", "alice", Null)>>
    /\ msgs = <<Msg("c1", 1, NullNum, <<"a">>)>>
    /\ last = [FirstCall(this, Null) EXCEPT !.op = "start"]

\* new SignalDatabase(sourceDir, password, key)
New ==
    \E flatpakExists \in BOOLEAN :
        /\ ~Constructed
        /\ last.op = "start"
        /\ LET made == constructor(env.sourceDir, env.key, env, flatpakExists)
           IN  Called("new", [flatpakExists |-> flatpakExists],
                      QRet(Ret(IF made.threw THEN NoSession ELSE made.this, handles,
                               <<>>, IF made.threw THEN "Unsupported OS" ELSE Null,
                               NoHandle),
                           <<>>, IF made.threw THEN "Unsupported OS" ELSE Null, <<>>, <<>>))

\* the native calls succeed; the keychain answers in every way
KeyAttempts == {Attempt(TRUE, k, 0, RowAbsent) : k \in Keychains}

NextKey ==
    \/ New
    \/ Open({att \in KeyAttempts : att.keychain = env.keychain})
    \/ Close

SpecKey == InitKey /\ [][NextKey]_vars

(***************************************************************************)
(* Properties of key and directory resolution (SpecKey).                   *)
(***************************************************************************)
\* the validity rule, stated on its own: not absent, not empty, and not a
\* "${" at the start of the string with a "}" after it
StartsPlaceholder(v) ==
    /\ Len(v) >= 3
    /\ v[1] = "$" /\ v[2] = "{"
    /\ \E j \in 3..Len(v) : v[j] = "}"

SyntacticallyValid(v) == v # Undefined /\ v # <<>> /\ ~StartsPlaceholder(v)

\* a literal "${" anywhere in the string with a "}" later in the string
HoldsPlaceholder(v) ==
    \E i \in 1..Len(v), j \in 1..Len(v) :
        i + 1 < j /\ v[i] = "$" /\ v[i + 1] = "{" /\ v[j] = "}"

\* the keys applied to a database so far (PRAGMA key)
AppliedKeys == {handles[h].key : h \in {i \in 1..Len(handles) : handles[i].pragmas >= 1}}

FreshOpen == last.op = "open" /\ last.pre.db = NoHandle

\* C7: a valid caller-supplied key is the key applied, whatever the other
\* sources hold and whether or not config.json can be read; else a valid
\* environment key is; else config.json's key field is, whatever the
\* keychain answers.  With such a source open() never reports a missing key.
C7_KeyResolutionOrder ==
    LET first == IF SyntacticallyValid(env.key) THEN env.key
                 ELSE IF SyntacticallyValid(env.SIGNAL_KEY) THEN env.SIGNAL_KEY
                 ELSE IF env.config.state = "ok" /\ Truthy(env.config.key)
                 THEN env.config.key
                 ELSE Undefined
    IN  first # Undefined =>
            /\ AppliedKeys \subseteq {first}
            /\ FreshOpen => last.raised = Null /\ handles[last.ret].key = first

C7_Witness ==
    /\ FreshOpen
    /\ SyntacticallyValid(env.key)
    /\ SyntacticallyValid(env.SIGNAL_KEY)
    /\ env.config.state = "ok" /\ Truthy(env.config.key) /\ Truthy(env.config.encryptedKey)
    /\ env.platform = "darwin"
    /\ handles[last.ret].key = env.key

\* C8 as claimed: an override that is empty or holds "${" with a "}" later
\* in the string is never the key applied nor the data directory.
C8_PlaceholderAnywhereIsAbsent ==
    LET Rejected(v) == v = <<>> \/ (v # Undefined /\ HoldsPlaceholder(v))
    IN  /\ \A v \in {env.key, env.SIGNAL_KEY} : Rejected(v) => v \notin AppliedKeys
        /\ \A v \in {env.sourceDir, env.SIGNAL_SOURCE_DIR} :
                Rejected(v) /\ Constructed => this.sourceDir # v

\* C8 as amended: an override that is empty or begins with "${" and holds a
\* "}" is never the key applied nor the data directory, and the next source
\* in line is used instead.
C8_LeadingPlaceholderIsAbsent ==
    LET Rejected(v) == v = <<>> \/ (v # Undefined /\ StartsPlaceholder(v))
        DefaultDirs == {getDefaultSignalDir(os, f) : os \in Platforms, f \in BOOLEAN}
                       \ {UnsupportedOS}
    IN  /\ \A v \in {env.key, env.SIGNAL_KEY} : Rejected(v) => v \notin AppliedKeys
        /\ (Rejected(env.key) /\ SyntacticallyValid(env.SIGNAL_KEY)) =>
                AppliedKeys \subseteq {env.SIGNAL_KEY}
        /\ (Rejected(env.key) /\ Rejected(env.SIGNAL_KEY) /\ env.config.state = "ok"
            /\ Truthy(env.config.key)) => AppliedKeys \subseteq {env.config.key}
        /\ Constructed =>
            /\ \A v \in {env.sourceDir, env.SIGNAL_SOURCE_DIR} :
                    Rejected(v) => this.sourceDir # v
            /\ (Rejected(env.sourceDir) /\ SyntacticallyValid(env.SIGNAL_SOURCE_DIR)) =>
                    this.sourceDir = env.SIGNAL_SOURCE_DIR
            /\ (Rejected(env.sourceDir) /\ Rejected(env.SIGNAL_SOURCE_DIR)) =>
                    this.sourceDir \in DefaultDirs

C8_Witness ==
    /\ env.key = Placeholder("a")
    /\ env.sourceDir = Placeholder("d")
    /\ Constructed
    /\ FreshOpen /\ last.raised = Null
    /\ handles[last.ret].key = env.SIGNAL_KEY

\* open() takes the keychain path: no key from the caller, the environment
\* or config.json's key field, an encryptedKey in config.json, on macOS
KeychainConsulted ==
    /\ ~SyntacticallyValid(env.key) /\ ~SyntacticallyValid(env.SIGNAL_KEY)
    /\ env.config.state = "ok"
    /\ ~Truthy(env.config.key) /\ Truthy(env.config.encryptedKey)
    /\ env.platform = "darwin"

\* some source yields a non-empty key
SomeSourceYieldsKey ==
    \/ SyntacticallyValid(env.key)
    \/ SyntacticallyValid(env.SIGNAL_KEY)
    \/ env.config.state = "ok" /\ Truthy(env.config.key)
    \/ KeychainConsulted /\ env.keychain \notin {KeychainFail, <<>>}

\* C16: a failure on the keychain path is no key from that source and never
\* an error of its own: an open() that gets as far as key resolution raises
\* the key-not-found error, before any handle is created, exactly when no
\* source yields a non-empty key, and raises nothing else.
C16_KeychainFailureIsNoKey ==
    FreshOpen =>
        /\ last.raised \in {Null, "key_not_found"}
        /\ last.raised = "key_not_found" <=> ~SomeSourceYieldsKey
        /\ last.raised = "key_not_found" =>
                /\ last.steps = SubSeq(OpenSteps, 1, 2)
                /\ handles = <<>>
        /\ (KeychainConsulted /\ last.raised = Null) =>
                handles[last.ret].key = env.keychain

\* the keychain path was taken and failed
C16_Witness ==
    /\ FreshOpen
    /\ KeychainConsulted
    /\ env.keychain = KeychainFail
    /\ last.raised = "key_not_found"

\* the data directory the session is to use
ExpectedDir(flatpakExists) ==
    IF SyntacticallyValid(env.sourceDir) THEN env.sourceDir
    ELSE IF SyntacticallyValid(env.SIGNAL_SOURCE_DIR) THEN env.SIGNAL_SOURCE_DIR
    ELSE CASE env.platform = "win32" -> <<"home/AppData/Roaming/Signal">>
           [] env.platform = "darwin" -> <<"home/Library/Application Support/Signal">>
           [] env.platform = "linux" /\ flatpakExists ->
                <<"home/.var/app/org.signal.Signal/config/Signal">>
           [] env.platform = "linux" /\ ~flatpakExists -> <<"home/.config/Signal">>
           [] OTHER -> UnsupportedOS

\* C17: the constructor resolves the data directory to the valid explicit
\* override, else the valid environment override, else the OS default (on
\* Linux the Flatpak path when it exists, else the conventional one); it
\* raises the unsupported-platform error only when it needs the default of
\* such a platform; no later step changes the directory.
C17_DirectoryResolvedOnce ==
    [][/\ last'.op = "new" =>
            LET dir == ExpectedDir(last'.args.flatpakExists)
            IN  IF dir = UnsupportedOS
                THEN last'.raised = "Unsupported OS" /\ this' = NoSession
                ELSE last'.raised = Null /\ this'.sourceDir = dir
       /\ Constructed => this'.sourceDir = this.sourceDir]_vars

\* the explicit override is a placeholder, the environment's is empty, and a
\* session on Linux with a Flatpak install has been opened and closed
C17_Witness ==
    /\ env.sourceDir = Placeholder("d")
    /\ env.SIGNAL_SOURCE_DIR = <<>>
    /\ env.platform = "linux"
    /\ this.sourceDir = <<"home/.var/app/org.signal.Signal/config/Signal">>
    /\ last.op = "close"
    /\ Len(handles) = 1

(***************************************************************************)
(* SpecQuery: one query on a session that opens, over every messages table *)
(* of up to MaxMsgs rows: two conversations, timestamps that agree with,   *)
(* differ from or lack the sent-at value, bodies that are absent, plain or *)
(* hold a LIKE wildcard.                                                   *)
(***************************************************************************)
RowPool ==
    {Msg(c, tm[1], tm[2], b) :
        c \in {"c1", "c2"},
        tm \in {<<2, NullNum>>, <<3, 1>>, <<NullNum, NullNum>>},
        b \in {Undefined, <<"a">>, <<"A", "_">>}}

EnvGood == Env(Undefined, <<"a">>, Undefined, Undefined, "linux", ConfigMissing)

InitQuery ==
    /\ env = EnvGood
    /\ this = constructor(env.sourceDir, env.key, env, FALSE).this
    /\ handles = <<>>
    /\ convs = <<Conv("c1", "alice", Null), Conv("c2", Null, "bob")>>
    /\ msgs \in SeqsUpTo(RowPool, MaxMsgs)
    /\ last = FirstCall(this, Null)

QueryAttempts == {Attempt(TRUE, KeychainFail, 0, RowAbsent)}

QueryLimits == {NullNum, 0, 1}
QueryOffsets == {NullNum, 1, 3}
QueryTexts == {<<>>, <<"a">>, <<"_">>, <<"%">>}

\* the query is the first call on the session, or follows an explicit open()
NextQuery ==
    \/ last.op = "new" /\ Open(QueryAttempts)
    \/ last.op \in {"new", "open"}
        /\ GetChatMessages(QueryAttempts, {"alice", "bob"}, QueryLimits, QueryOffsets)
    \/ last.op \in {"new", "open"}
        /\ SearchChat(QueryAttempts, {"alice", "bob"}, QueryTexts, QueryLimits)

SpecQuery == InitQuery /\ [][NextQuery]_vars

(***************************************************************************)
(* Properties of the queries (SpecQuery).                                  *)
(***************************************************************************)
Min(a, b) == IF a <= b THEN a ELSE b
Max(a, b) == IF a >= b THEN a ELSE b

\* the call just made found its conversation and returned
Answered(op) ==
    /\ last.op = op
    /\ last.raised = Null
    /\ findConversation(convs, last.args.chatName) # 0

\* the rows of the conversation the last call named, as a set of indices
ConversationRows ==
    {i \in 1..Len(msgs) :
        msgs[i].conversationId = convs[findConversation(convs, last.args.chatName)].id}

\* C2: with N messages in the conversation, limit L >= 0 and offset O the
\* call returns min(L, max(0, N - O)) records, and max(0, N - O) records
\* when limit is unset.
C2_PageSize ==
    Answered("getChatMessages") =>
        LET N == Cardinality(ConversationRows)
            L == last.args.options.limit
            O == IF last.args.options.offset = NullNum THEN 0 ELSE last.args.options.offset
        IN  Len(last.result) = IF L = NullNum THEN Max(0, N - O)
                               ELSE Min(L, Max(0, N - O))

\* the milliseconds a rendered date stands for; the empty date is before all
DigitValue(c) == CHOOSE n \in 0..9 : Digit(n) = c

Instant(date) ==
    IF date = <<>> THEN -1
    ELSE 100 * DigitValue(date[2]) + 10 * DigitValue(date[3]) + DigitValue(date[4])

\* C3: the records of getChatMessages and searchChat are newest first: the
\* rendered dates never increase along the result.
C3_NewestFirstByDate ==
    (Answered("getChatMessages") \/ Answered("searchChat")) =>
        \A k \in 1..(Len(last.result) - 1) :
            Instant(last.result[k].date) >= Instant(last.result[k + 1].date)

\* body holds text as a literal substring, up to ASCII case
ContainsText(body, text) ==
    \E k \in 0..(Len(body) - Len(text)) :
        \A j \in 1..Len(text) : Fold(body[k + j]) = Fold(text[j])

\* C4: searchChat returns the messages of the conversation whose body holds
\* the query as a literal substring (up to ASCII case) and no other: every
\* record's body holds the query, also when the query holds % or _; with no
\* limit every such message is returned, with limit L >= 1 at most L are.
C4_SearchIsLiteralSubstring ==
    Answered("searchChat") =>
        LET text == last.args.query
            L == last.args.options.limit
            Holding == {i \in ConversationRows :
                            msgs[i].body # Undefined /\ ContainsText(msgs[i].body, text)}
            Returned == {last.rows[k] : k \in 1..Len(last.rows)}
        IN  /\ \A k \in 1..Len(last.result) : ContainsText(last.result[k].body, text)
            /\ Returned \subseteq Holding
            /\ L = NullNum => Returned = Holding
            /\ L >= 1 => Len(last.rows) = Min(L, Cardinality(Holding))

\* the result of getChatMessages(chatName, {}) on the session as it is now,
\* for one order of the engine; Keep selects the rows that count
AllMessages(order, Keep(_)) ==
    LET g == getChatMessages(this, handles, env, CHOOSE att \in QueryAttempts : TRUE,
                             convs, msgs, order, last.args.chatName,
                             [limit |-> NullNum, offset |-> NullNum])
        at == SelectSeq([p \in 1..Len(g.rows) |-> p], LAMBDA p : Keep(g.rows[p]))
    IN  [k \in 1..Len(at) |-> g.result[at[k]]]

EmptySearch ==
    /\ Answered("searchChat")
    /\ last.args.query = <<>>
    /\ last.args.options.limit = NullNum

\* C5 as claimed: searchChat(name, "") with no limit returns the records
\* getChatMessages(name, {}) returns, rows of NULL body included.
C5_EmptySearchReturnsAll ==
    EmptySearch =>
        \E order \in OrderByTimestampDesc(msgs, 1..Len(msgs)) :
            last.result = AllMessages(order, LAMBDA i : TRUE)

\* C5 as amended: searchChat(name, "") with no limit returns the records
\* getChatMessages(name, {}) returns for the rows whose body is not NULL, in
\* the same order; the rows of NULL body are left out.
C5_EmptySearchReturnsAllWithBody ==
    EmptySearch =>
        /\ \E order \in OrderByTimestampDesc(msgs, 1..Len(msgs)) :
                last.result = AllMessages(order, LAMBDA i : msgs[i].body # Undefined)
        /\ {last.rows[k] : k \in 1..Len(last.rows)}
                = {i \in ConversationRows : msgs[i].body # Undefined}

C5_Witness ==
    /\ EmptySearch
    /\ Len(last.result) = 1
    /\ Cardinality(ConversationRows) = 2
    /\ \E i \in ConversationRows : msgs[i].body = Undefined

(***************************************************************************)
(* SpecTool: tool calls through the handler of index.ts, each with a       *)
(* session of its own, on small tables and on one conversation of more     *)
(* messages than the documented default limits.                            *)
(***************************************************************************)
DocumentedGetLimit == 50
DocumentedSearchLimit == 20

LongTable == [i \in 1..(DocumentedGetLimit + 1) |-> Msg("c1", i, NullNum, <<"a">>)]

ToolTables ==
    {<<>>, <<Msg("c1", 2, NullNum, <<"a">>), Msg("c2", 3, 1, Undefined)>>, LongTable,
     <<[Msg("c1", 1, NullNum, <<"a">>) EXCEPT !.json = JsonNull]>>}

Args(chat_name, query, limit) ==
    [source_dir |-> Undefined, key |-> <<"a">>, chat_name |-> chat_name,
     query |-> query, limit |-> limit, offset |-> NullNum, chats |-> Undefined,
     include_empty |-> FALSE]

\* the calls: a tool name with its arguments (those the tool does not read
\* are left out of the call)
ToolCalls ==
    {<<"signal_list_chats", Args(Null, Undefined, NullNum)>>,
     <<"no_such_tool", Args(Null, Undefined, NullNum)>>}
    \cup {<<"signal_get_chat_messages", Args(c, Undefined, l)>> :
            c \in {Null, "alice"}, l \in {NullNum, 1}}
    \cup {<<"signal_search_chat", Args(c, q, l)>> :
            c \in {Null, "alice"}, q \in {Undefined, <<"a">>}, l \in {NullNum, 1}}

InitTool ==
    /\ env \in {Env(Undefined, Undefined, Undefined, Undefined, os, ConfigMissing) :
                    os \in {"linux", "freebsd"}}
    /\ this = NoSession
    /\ handles = <<>>
    /\ convs = <<Conv("c1", "alice", Null), Conv("c2", Null, "bob")>>
    /\ msgs \in ToolTables
    /\ last = [FirstCall(this, Null) EXCEPT !.op = "start"]

\* the database file is missing, the first cipher directive or the
\* verification query raises, or all is well
ToolAttempts ==
    {Attempt(FALSE, KeychainFail, 0, RowAbsent),
     Attempt(TRUE, KeychainFail, 2, RowAbsent),
     Attempt(TRUE, KeychainFail, NumPragmas + 2, RowAbsent),
     Attempt(TRUE, KeychainFail, 0, RowAbsent)}

CallTool ==
    \E order \in OrderByTimestampDesc(msgs, 1..Len(msgs)), call \in ToolCalls,
       att \in ToolAttempts, flatpakExists \in BOOLEAN :
        /\ Len(handles) < MaxHandles
        /\ \E r \in {callTool(call[1], call[2], handles, env, att, flatpakExists,
                              convs, msgs, order)} :
               /\ this' = r.this
               /\ handles' = r.handles
               /\ last' = [op |-> call[1], args |-> call[2], pre |-> this,
                           steps |-> r.steps, raised |-> r.raised, ret |-> r.ret,
                           result |-> r.result, rows |-> r.rows, isError |-> r.isError]
               /\ UNCHANGED <<env, convs, msgs>>

NextTool == CallTool

SpecTool == InitTool /\ [][NextTool]_vars

\* C6: with limit omitted from the tool call, signal_get_chat_messages
\* returns at most 50 messages and signal_search_chat at most 20.
C6_DocumentedDefaultLimits ==
    /\ (last.op = "signal_get_chat_messages" /\ last.args.limit = NullNum) =>
            Len(last.result) <= DocumentedGetLimit
    /\ (last.op = "signal_search_chat" /\ last.args.limit = NullNum) =>
            Len(last.result) <= DocumentedSearchLimit

\* the native steps that act on a database handle
HandleSteps ==
    {"pragma", "verify", "loadSelfContact", "conversations.all", "conversations.get",
     "messages.count", "messages.all", "db.close"}

\* C12: whatever the tool and wherever the call raises, when the handler
\* returns the call's session is Closed and no handle is open; the call
\* acts on no handle but the one it created itself; a failure comes back as
\* an isError result.
C12_ToolCallReleasesSession ==
    /\ [](this.db = NoHandle /\ Live = {})
    /\ [][/\ last'.isError = (last'.raised # Null)
          /\ Len(handles') \in {Len(handles), Len(handles) + 1}
          /\ \A h \in 1..Len(handles) : handles'[h] = handles[h]
          /\ (\E k \in 1..Len(last'.steps) : last'.steps[k] \in HandleSteps) =>
                Len(handles') = Len(handles) + 1]_vars

\* a call whose open() raised after creating its handle, following a call
\* that succeeded: both handles are closed
C12_Witness ==
    /\ last.op \in {"signal_list_chats", "signal_get_chat_messages", "signal_search_chat"}
    /\ last.raised = "open_failed"
    /\ last.isError
    /\ Len(handles) = 2
    /\ handles[1].verified /\ ~handles[2].verified
    /\ Live = {}
    /\ this.db = NoHandle

(***************************************************************************)
(* SpecChats: one query on a session that opens, over conversations tables *)
(* of up to MaxConvs rows whose type, secondary identifier, direct name,    *)
(* profile name and json payload vary.                                     *)
(***************************************************************************)
ConvObject(name, profileName, groupName) ==
    [state |-> "ok", kind |-> "object", name |-> name, profileName |-> profileName,
     groupName |-> groupName]

ConvRow(type, serviceId, name, profileName, json) ==
    [id |-> Null, serviceId |-> serviceId, name |-> name, profileName |-> profileName,
     number |-> Null, type |-> type, json |-> json]

ConvPool ==
    {ConvRow("private", Null, "alice", Null, JsonAbsent),
     ConvRow("group", "s1", Null, "carol", JsonAbsent),
     ConvRow("other", Null, "alice", Null, JsonAbsent),
     ConvRow("private", "s1", "", "carol", ConvObject("dave", "erin", "g")),
     ConvRow("group", Null, Null, Null, JsonAbsent),
     ConvRow("private", Null, Null, Null, JsonBad),
     ConvRow("private", Null, Null, Null, JsonNull),
     ConvRow("group", "s1", Null, Null, JsonScalar),
     ConvRow("private", Null, Null, "", ConvObject("dave", "erin", "g")),
     ConvRow("group", Null, Null, Null, ConvObject(Null, "erin", "g")),
     ConvRow("group", "s1", Null, Null, ConvObject("", Null, "g")),
     ConvRow("private", Null, Null, Null, ConvObject(Null, Null, Null)),
     ConvRow("private", "s1", "alice", "carol", ConvObject("dave", "erin", "g"))}

\* the primary key of the k-th row
ConvIds == <<"c1", "c2", "c3", "c4">>

ChatTables ==
    {<<>>, <<Msg("c1", 1, NullNum, <<"a">>), Msg("c1", 2, NullNum, <<"a">>)>>,
     <<Msg("c2", 1, NullNum, <<"a">>), Msg("c1", 2, NullNum, Undefined)>>}

InitChats ==
    /\ env = EnvGood
    /\ this = constructor(env.sourceDir, env.key, env, FALSE).this
    /\ handles = <<>>
    /\ \E rows \in SeqsUpTo(ConvPool, MaxConvs) :
            convs = [k \in 1..Len(rows) |-> [rows[k] EXCEPT !.id = ConvIds[k]]]
    /\ msgs \in ChatTables
    /\ last = FirstCall(this, Null)

ChatNames == {"alice", "carol", "dave", "nobody"}

\* options.chats, split at the commas and trimmed
ChatFilters == {Undefined, <<"c1">>, <<"s1">>, <<"c2", "x">>}

NextChats ==
    \/ last.op = "new" /\ ListChats(QueryAttempts, ChatFilters)
    \/ last.op = "new" /\ GetChatMessages(QueryAttempts, ChatNames, {NullNum}, {NullNum})
    \/ last.op = "new" /\ SearchChat(QueryAttempts, ChatNames, {<<"a">>}, {NullNum})

SpecChats == InitChats /\ [][NextChats]_vars

(***************************************************************************)
(* Properties of the conversation lookup and listing (SpecChats).          *)
(***************************************************************************)
\* some conversation has chatName as its direct name or its profile name
Named(chatName) ==
    \E i \in 1..Len(convs) : chatName \in {convs[i].name, convs[i].profileName}

\* chatName is a name held in the json payload of some conversation
NamedInJson(chatName) ==
    \E i \in 1..Len(convs) :
        /\ convs[i].json.state = "ok" /\ convs[i].json.kind = "object"
        /\ chatName \in {convs[i].json.name, convs[i].json.profileName,
                         convs[i].json.groupName}

\* C13: on a session that opens, getChatMessages and searchChat return the
\* empty list and do not raise when no conversation has chatName as direct
\* name or profile name, also when chatName is a name inside a json payload.
C13_UnknownChatIsEmpty ==
    (last.op \in {"getChatMessages", "searchChat"} /\ ~Named(last.args.chatName)) =>
        /\ last.raised = Null
        /\ last.result = <<>>

C13_Witness ==
    /\ last.op \in {"getChatMessages", "searchChat"}
    /\ ~Named(last.args.chatName)
    /\ NamedInJson(last.args.chatName)
    /\ \E k \in 1..Len(msgs) : \E i \in 1..Len(convs) :
            /\ msgs[k].conversationId = convs[i].id
            /\ convs[i].json.state = "ok" /\ convs[i].json.kind = "object"
            /\ convs[i].json.name = last.args.chatName
    /\ last.result = <<>>

\* the number of messages that reference conversation i
MessageCount(i) == Cardinality({k \in 1..Len(msgs) : msgs[k].conversationId = convs[i].id})

\* the conversations listConversations is to return for the last call
ToList ==
    {i \in 1..Len(convs) :
        /\ convs[i].type \in {"private", "group"}
        /\ MessageCount(i) > 0 \/ last.args.includeEmpty
        /\ \/ last.args.chats = Undefined
           \/ \E k \in 1..Len(last.args.chats) :
                \/ last.args.chats[k] = convs[i].id
                \/ convs[i].serviceId # Null /\ last.args.chats[k] = convs[i].serviceId}

\* C15: listChats returns, in storage order, exactly the conversations of
\* type private or group that have messages (or all of them with
\* includeEmpty) and, with an id filter, whose id or secondary identifier is
\* in the filter; totalMessages is the number of messages of the conversation.
C15_ListedConversations ==
    (last.op = "listChats" /\ last.raised = Null) =>
        /\ {last.rows[k] : k \in 1..Len(last.rows)} = ToList
        /\ \A k \in 1..(Len(last.rows) - 1) : last.rows[k] < last.rows[k + 1]
        /\ Len(last.result) = Len(last.rows)
        /\ \A k \in 1..Len(last.rows) :
            /\ last.result[k].id = convs[last.rows[k]].id
            /\ last.result[k].totalMessages = MessageCount(last.rows[k])

\* a filter on the secondary identifier keeps the conversation that has it
\* and drops another that has a message too
C15_Witness ==
    /\ last.op = "listChats"
    /\ last.args.chats = <<"s1">>
    /\ ~last.args.includeEmpty
    /\ Len(convs) = 2
    /\ convs[2].type = "private" /\ convs[2].serviceId = Null /\ MessageCount(2) = 1
    /\ Len(last.result) = 1
    /\ last.result[1].id = "c1"
    /\ last.result[1].serviceId = "s1"
    /\ last.result[1].totalMessages = 1

\* the first non-empty value of a list of values, Null if there is none
FirstNonEmpty(values) ==
    LET at == {k \in 1..Len(values) : values[k] # Null /\ values[k] # ""}
    IN  IF at = {} THEN Null ELSE values[CHOOSE k \in at : \A j \in at : k <= j]

\* the json payload of a conversation parsed to an object
PayloadUsable(conv) == conv.json.state = "ok" /\ conv.json.kind = "object"

\* C18: the name listChats gives a conversation is the first non-empty of
\* its direct name, its profile name and, when the json payload parses to an
\* object, the payload's name, profileName and groupName; it is null when
\* there is none or the payload is absent, unparseable or not an object;
\* listChats does not raise.
C18_DisplayName ==
    last.op = "listChats" =>
        /\ last.raised = Null
        /\ \A k \in 1..Len(last.result) :
            LET conv == convs[last.rows[k]]
                own == <<conv.name, conv.profileName>>
                held == IF PayloadUsable(conv)
                        THEN <<conv.json.name, conv.json.profileName, conv.json.groupName>>
                        ELSE <<>>
            IN  last.result[k].name = FirstNonEmpty(own \o held)

\* one conversation named from its payload's groupName and one whose payload
\* parses to null, listed together
C18_Witness ==
    /\ last.op = "listChats"
    /\ Len(last.result) = 2
    /\ \E k \in 1..2 :
            /\ PayloadUsable(convs[last.rows[k]])
            /\ convs[last.rows[k]].json.name = ""
            /\ last.result[k].name = "g"
    /\ \E k \in 1..2 :
            /\ convs[last.rows[k]].json = JsonNull
            /\ last.result[k].name = Null

(***************************************************************************)
(* SpecFormat: one query on a session that opens, over every outcome of    *)
(* reading the self-identifier row and every messages table of up to       *)
(* MaxMsgs rows whose type, source identifier and json payload vary.       *)
(***************************************************************************)
Quote(present, text) == [present |-> present, text |-> text]

Sticker(present, emoji, packId) == [present |-> present, emoji |-> emoji, packId |-> packId]

NoQuote == Quote(FALSE, Null)
NoSticker == Sticker(FALSE, Null, Null)

\* the column's text parses to an object; a key that is missing or holds a
\* falsy value is not present
MsgObject(quote, sticker, reactions) ==
    [state |-> "ok", kind |-> "object", quote |-> quote, sticker |-> sticker,
     reactions |-> reactions]

MsgJsons ==
    {JsonAbsent, JsonBad, JsonNull, JsonScalar}
    \cup {MsgObject(q, NoSticker, Undefined) :
            q \in {NoQuote, Quote(TRUE, "hi"), Quote(TRUE, Null), Quote(TRUE, "")}}
    \cup {MsgObject(NoQuote, st, Undefined) :
            st \in {Sticker(TRUE, "fire", "p"), Sticker(TRUE, Null, "p"),
                    Sticker(TRUE, "", Null), Sticker(TRUE, Null, Null)}}
    \cup {MsgObject(NoQuote, NoSticker, re) : re \in {<<>>, <<"r1", "r2">>}}
    \cup {MsgObject(Quote(TRUE, "hi"), Sticker(TRUE, "fire", Null), <<"r1">>)}

FormatPool ==
    {[Msg("c2", 1, NullNum, <<"a">>) EXCEPT !.type = t, !.sourceServiceId = u] :
        t \in {"incoming", "outgoing"}, u \in {Null, "u1", "u2"}}
    \cup {[Msg("c1", 1, NullNum, <<"a">>) EXCEPT !.json = j] : j \in MsgJsons}

InitFormat ==
    /\ env = EnvGood
    /\ this = constructor(env.sourceDir, env.key, env, FALSE).this
    /\ handles = <<>>
    /\ convs = <<Conv("c1", "alice", Null), Conv("c2", "", Null)>>
    /\ msgs \in SeqsUpTo(FormatPool, MaxMsgs)
    /\ last = FirstCall(this, Null)

\* the self-identifier row is absent, unreadable, holds no value or holds u1
FormatAttempts ==
    {Attempt(TRUE, KeychainFail, 0, row) :
        row \in {r \in SelfRows : r.value \in {Null, "u1"}}}

NextFormat ==
    \/ last.op = "new"
        /\ GetChatMessages(FormatAttempts, {"alice", ""}, {NullNum}, {NullNum})
    \/ last.op = "new"
        /\ SearchChat(FormatAttempts, {"alice", ""}, {<<"a">>}, {NullNum})

SpecFormat == InitFormat /\ [][NextFormat]_vars

(***************************************************************************)
(* Properties of formatMessage (SpecFormat).                               *)
(***************************************************************************)
\* the name the records of the last call carry for the other party
ContactLabel ==
    LET n == displayName(convs[findConversation(convs, last.args.chatName)])
    IN  IF StrTruthy(n) THEN n ELSE "Unknown"

Found ==
    /\ last.op \in {"getChatMessages", "searchChat"}
    /\ findConversation(convs, last.args.chatName) # 0

\* the json payload of a message parsed to an object
Usable(j) == j.state = "ok" /\ j.kind = "object"

\* the empty text for a value that is not there
OrEmpty(v) == IF v = Null THEN "" ELSE v

\* C19: whatever the json column of a message holds, getChatMessages and
\* searchChat do not raise, and every record has quote = quote.text else "",
\* sticker = sticker.emoji else sticker.packId else "", reactions = the
\* payload's list else the empty list; a row with no usable payload gets
\* "", "" and the empty list.
C19_JsonNeverFatal ==
    Found =>
        /\ last.raised = Null
        /\ \A k \in 1..Len(last.result) :
            LET j == msgs[last.rows[k]].json
                rec == last.result[k]
            IN  IF Usable(j)
                THEN /\ rec.quote = IF j.quote.present
                                    THEN OrEmpty(FirstNonEmpty(<<j.quote.text>>))
                                    ELSE ""
                     /\ rec.sticker = IF j.sticker.present
                                      THEN OrEmpty(FirstNonEmpty(<<j.sticker.emoji,
                                                                  j.sticker.packId>>))
                                      ELSE ""
                     /\ rec.reactions = IF j.reactions # Undefined THEN j.reactions
                                        ELSE <<>>
                ELSE rec.quote = "" /\ rec.sticker = "" /\ rec.reactions = <<>>

\* C20: when the session has no self identifier (the row was absent or
\* unparseable at open), no row of a type other than "outgoing" is labelled
\* "Me", a row without sourceServiceId included.
C20_NoSelfIdentifierNoSelfLabel ==
    ((Answered("getChatMessages") \/ Answered("searchChat")) /\ this.selfServiceId = Null)
        => \A k \in 1..Len(last.result) :
                msgs[last.rows[k]].type # "outgoing" => last.result[k].sender # "Me"

(***************************************************************************)
(* SpecSelf: the life of one session over a database whose self-identifier *)
(* row (items row uuid_id) is absent, unparseable or holds a value, and    *)
(* is rewritten by its owner while the session is closed.  env.selfRow is  *)
(* the row as it is now; an open() reads that row.                         *)
(***************************************************************************)
InitSelf ==
    /\ env \in {EnvGood @@ [selfRow |-> row] : row \in SelfRows}
    /\ this = constructor(env.sourceDir, env.key, env, FALSE).this
    /\ handles = <<>>
    /\ convs = <<Conv("c1", "alice", Null)>>
    /\ msgs = <<[Msg("c1", 1, NullNum, <<"a">>) EXCEPT !.sourceServiceId = "u1"]>>
    /\ last = FirstCall(this, Null)

\* the database file is missing, the verification query raises, or the open
\* succeeds and reads the row as it is now
SelfAttempts ==
    {Attempt(FALSE, KeychainFail, 0, RowAbsent),
     Attempt(TRUE, KeychainFail, NumPragmas + 2, RowAbsent),
     Attempt(TRUE, KeychainFail, 0, env.selfRow)}

\* the owner of the database rewrites or removes the row
ItemsRowChanges ==
    \E row \in SelfRows :
        /\ this.db = NoHandle
        /\ row # env.selfRow
        /\ env' = [env EXCEPT !.selfRow = row]
        /\ UNCHANGED <<this, handles, convs, msgs, last>>

NextSelf ==
    \/ Open(SelfAttempts)
    \/ Close
    \/ GetChatMessages(SelfAttempts, {"alice"}, {NullNum}, {NullNum})
    \/ ItemsRowChanges

SpecSelf == InitSelf /\ [][NextSelf]_vars

(***************************************************************************)
(* Properties of the self identifier (SpecSelf).                           *)
(***************************************************************************)
\* the last call opened the database: it went through open() to the end
OpenedNow ==
    /\ last.op \in Queries \cup {"open"}
    /\ last.pre.db = NoHandle
    /\ Len(last.steps) >= Len(OpenSteps)
    /\ SubSeq(last.steps, 1, Len(OpenSteps)) = OpenSteps

\* the value the self-identifier row holds, Null when the row is absent or
\* unparseable or holds none
RowValue(row) ==
    IF row.state = "ok" /\ row.value \notin {Null, ""} THEN row.value ELSE Null

\* C21: after every successful open() the session's self identifier is the
\* value read from the row during that open, unset when the row is absent
\* or unparseable, also on a session opened earlier with a value loaded and
\* closed since.
C21_SelfIdentifierIsFromThisOpen ==
    OpenedNow => this.selfServiceId = RowValue(env.selfRow)

====
